---- MODULE Spec2Model ----
(***************************************************************************)
(* State-machine model of src/app.py: the /api/weather, /api/geocode and   *)
(* /api/ambient request handlers, with their provider fallback chains      *)
(* (Spec), and the weather classifier and the place-label builders applied *)
(* to drawn arguments (FunctionSpec).                                      *)
(*                                                                         *)
(* Python text is a sequence of one-character strings, so that lower(),    *)
(* strip(), "in", endswith() and concatenation are computed as the code    *)
(* computes them.  The Python value None is the sequence None for text     *)
(* fields and the empty sequence NoNum for numeric fields; the number n is *)
(* Num(n).                                                                 *)
(***************************************************************************)
EXTENDS Integers, Sequences, FiniteSets, TLC

VARIABLES
    OPENWEATHER_API_KEY,  \* TRUE iff the credential read at start-up is non-empty
    pc,                   \* position of the request being served
    request,              \* the request's inputs
    locals,               \* the handler's local variables
    calls,                \* upstream calls issued for this request, in order
    response              \* the response returned to the caller

vars == <<OPENWEATHER_API_KEY, pc, request, locals, calls, response>>

-----------------------------------------------------------------------------
(* Python values *)

None == <<"None">>
NoNum == <<>>
Num(n) == <<n>>

\* truthiness of a text-or-None value: "if x:"
Truthy(t) == t # None /\ t # <<>>

\* "a or b" on text-or-None values
Or(a, b) == IF Truthy(a) THEN a ELSE b

UpperChars == <<"A", "B", "C", "D", "E", "F", "G", "H", "I", "J", "K", "L", "M", "N", "O", "P", "Q", "R", "S", "T", "U", "V", "W", "X", "Y", "Z">>
LowerChars == <<"a", "b", "c", "d", "e", "f", "g", "h", "i", "j", "k", "l", "m", "n", "o", "p", "q", "r", "s", "t", "u", "v", "w", "x", "y", "z">>

LowerChar(c) ==
    IF \E i \in DOMAIN UpperChars : UpperChars[i] = c
    THEN LowerChars[CHOOSE i \in DOMAIN UpperChars : UpperChars[i] = c]
    ELSE c

\* str.lower()
Lower(s) == [i \in 1..Len(s) |-> LowerChar(s[i])]

\* "sub in s"
Contains(s, sub) ==
    \E i \in 0..(Len(s) - Len(sub)) : SubSeq(s, i + 1, i + Len(sub)) = sub

\* s.endswith(suf)
EndsWith(s, suf) ==
    Len(suf) <= Len(s) /\ SubSeq(s, Len(s) - Len(suf) + 1, Len(s)) = suf

IsSpace(c) == c \in {" ", "\t", "\n"}

RECURSIVE LStrip(_)
LStrip(s) == IF s # <<>> /\ IsSpace(Head(s)) THEN LStrip(Tail(s)) ELSE s

RECURSIVE RStrip(_)
RStrip(s) ==
    IF s # <<>> /\ IsSpace(s[Len(s)]) THEN RStrip(SubSeq(s, 1, Len(s) - 1)) ELSE s

\* str.strip()
Strip(s) == RStrip(LStrip(s))

\* number of tokens of s.split(): maximal runs of non-whitespace
TokenCount(s) ==
    Cardinality({i \in 1..Len(s) :
        ~IsSpace(s[i]) /\ (i = 1 \/ IsSpace(s[i - 1]))})

\* list(dict.fromkeys(parts)): duplicates removed, first occurrence kept
RECURSIVE Dedup(_)
Dedup(parts) ==
    IF parts = <<>> THEN <<>>
    ELSE LET init == Dedup(SubSeq(parts, 1, Len(parts) - 1))
             last == parts[Len(parts)]
         IN  IF \E i \in DOMAIN init : init[i] = last THEN init
             ELSE Append(init, last)

Sep == <<",", " ">>

\* ", ".join(parts)
RECURSIVE Join(_)
Join(parts) ==
    IF parts = <<>> THEN <<>>
    ELSE IF Len(parts) = 1 THEN parts[1]
    ELSE parts[1] \o Sep \o Join(Tail(parts))

\* [p for p in parts if p]
RECURSIVE FilterTruthy(_)
FilterTruthy(parts) ==
    IF parts = <<>> THEN <<>>
    ELSE IF Truthy(Head(parts)) THEN <<Head(parts)>> \o FilterTruthy(Tail(parts))
    ELSE FilterTruthy(Tail(parts))

-----------------------------------------------------------------------------
(* Texts used as inputs and provider values *)

Kupwara == <<"K", "u", "p", "w", "a", "r", "a">>
Noida == <<"N", "o", "i", "d", "a">>
Paris == <<"P", "a", "r", "i", "s">>
LehIndia == <<"L", "e", "h", ",", " ", "I", "n", "d", "i", "a">>
PaddedParis == <<" ", "P", "a", "r", "i", "s", " ">>
Blank == <<" ", " ">>
Haze == <<"h", "a", "z", "e">>
Leh == <<"L", "e", "h">>
Goa == <<"G", "o", "a">>
Ladakh == <<"L", "a", "d", "a", "k", "h">>
CountryIn == <<"i", "n">>
Kolkata == <<"A", "s", "i", "a", "/", "K", "o", "l", "k", "a", "t", "a">>
BogusZone == <<"B", "o", "g", "u", "s">>
OldGoa == <<"O", "l", "d", " ", "G", "o", "a">>
SectorFive == <<"S", "E", "C", "T", "O", "R", "5">>
GoaIndia == <<"G", "o", "a", ",", " ", "I", "n", "d", "i", "a">>

-----------------------------------------------------------------------------
(* Bounds of the model *)

\* longest result list a geocoding provider returns in the model
MaxResults == 2

-----------------------------------------------------------------------------
(* Upstream calls *)

\* what one requests.get(...) can do: raise (timeout, connection error),
\* answer with a non-success status, answer 200 with a body that is not the
\* JSON the code reads (.json() or the first access raises), or answer 200
\* with a JSON payload
Outcomes == {"timeout", "http_error", "bad_json", "ok"}

NoPayload == <<>>

Call(provider, endpoint, q, cc, outcome, payload) ==
    [provider |-> provider, endpoint |-> endpoint, q |-> q,
     lat |-> request.lat, lon |-> request.lon, countrycodes |-> cc,
     outcome |-> outcome,
     payload |-> IF outcome = "ok" THEN payload ELSE NoPayload]

NoOut == <<>>

ErrorResponse(status, message) ==
    [status |-> status, kind |-> "error", error |-> message, out |-> NoOut]

NoResponse == [status |-> 0, kind |-> "none", error |-> "", out |-> NoOut]

InitLocals ==
    [out |-> NoOut, tz_offset |-> NoNum, cur |-> NoPayload,
     name |-> None, country |-> None,
     q |-> None, autocomplete |-> FALSE, is_indian_specific |-> FALSE,
     retry_i |-> 0]

-----------------------------------------------------------------------------
(* _omap_weather_code_desc *)

WeatherUnavailable == <<"w", "e", "a", "t", "h", "e", "r", " ", "u", "n", "a", "v", "a", "i", "l", "a", "b", "l", "e">>

OmapMapping ==
  {
    <<0, <<"c", "l", "e", "a", "r", " ", "s", "k", "y">>>>,
    <<1, <<"m", "a", "i", "n", "l", "y", " ", "c", "l", "e", "a", "r">>>>,
    <<2, <<"p", "a", "r", "t", "l", "y", " ", "c", "l", "o", "u", "d", "y">>>>,
    <<3, <<"o", "v", "e", "r", "c", "a", "s", "t">>>>,
    <<45, <<"f", "o", "g">>>>,
    <<48, <<"d", "e", "p", "o", "s", "i", "t", "i", "n", "g", " ", "r", "i", "m", "e", " ", "f", "o", "g">>>>,
    <<51, <<"l", "i", "g", "h", "t", " ", "d", "r", "i", "z", "z", "l", "e">>>>,
    <<53, <<"m", "o", "d", "e", "r", "a", "t", "e", " ", "d", "r", "i", "z", "z", "l", "e">>>>,
    <<55, <<"d", "e", "n", "s", "e", " ", "d", "r", "i", "z", "z", "l", "e">>>>,
    <<56, <<"l", "i", "g", "h", "t", " ", "f", "r", "e", "e", "z", "i", "n", "g", " ", "d", "r", "i", "z", "z", "l", "e">>>>,
    <<57, <<"d", "e", "n", "s", "e", " ", "f", "r", "e", "e", "z", "i", "n", "g", " ", "d", "r", "i", "z", "z", "l", "e">>>>,
    <<61, <<"s", "l", "i", "g", "h", "t", " ", "r", "a", "i", "n">>>>,
    <<63, <<"m", "o", "d", "e", "r", "a", "t", "e", " ", "r", "a", "i", "n">>>>,
    <<65, <<"h", "e", "a", "v", "y", " ", "r", "a", "i", "n">>>>,
    <<66, <<"l", "i", "g", "h", "t", " ", "f", "r", "e", "e", "z", "i", "n", "g", " ", "r", "a", "i", "n">>>>,
    <<67, <<"h", "e", "a", "v", "y", " ", "f", "r", "e", "e", "z", "i", "n", "g", " ", "r", "a", "i", "n">>>>,
    <<71, <<"s", "l", "i", "g", "h", "t", " ", "s", "n", "o", "w">>>>,
    <<73, <<"m", "o", "d", "e", "r", "a", "t", "e", " ", "s", "n", "o", "w">>>>,
    <<75, <<"h", "e", "a", "v", "y", " ", "s", "n", "o", "w">>>>,
    <<77, <<"s", "n", "o", "w", " ", "g", "r", "a", "i", "n", "s">>>>,
    <<80, <<"s", "l", "i", "g", "h", "t", " ", "r", "a", "i", "n", " ", "s", "h", "o", "w", "e", "r", "s">>>>,
    <<81, <<"m", "o", "d", "e", "r", "a", "t", "e", " ", "r", "a", "i", "n", " ", "s", "h", "o", "w", "e", "r", "s">>>>,
    <<82, <<"v", "i", "o", "l", "e", "n", "t", " ", "r", "a", "i", "n", " ", "s", "h", "o", "w", "e", "r", "s">>>>,
    <<85, <<"s", "l", "i", "g", "h", "t", " ", "s", "n", "o", "w", " ", "s", "h", "o", "w", "e", "r", "s">>>>,
    <<86, <<"h", "e", "a", "v", "y", " ", "s", "n", "o", "w", " ", "s", "h", "o", "w", "e", "r", "s">>>>,
    <<95, <<"t", "h", "u", "n", "d", "e", "r", "s", "t", "o", "r", "m">>>>,
    <<96, <<"t", "h", "u", "n", "d", "e", "r", "s", "t", "o", "r", "m", " ", "w", "i", "t", "h", " ", "s", "l", "i", "g", "h", "t", " ", "h", "a", "i", "l">>>>,
    <<99, <<"t", "h", "u", "n", "d", "e", "r", "s", "t", "o", "r", "m", " ", "w", "i", "t", "h", " ", "h", "e", "a", "v", "y", " ", "h", "a", "i", "l">>>>
  }

_omap_weather_code_desc(code) ==
    LET k == IF code # NoNum THEN code[1] ELSE -1
    IN  IF \E e \in OmapMapping : e[1] = k
        THEN (CHOOSE e \in OmapMapping : e[1] = k)[2]
        ELSE WeatherUnavailable

-----------------------------------------------------------------------------
(* _get_timezone_and_localtime *)

\* zone names the zoneinfo database knows; ZoneInfo(other) raises
KnownZones == {Kolkata}

\* datetime.now(tz).isoformat(): the time depends on the clock, so the model
\* keeps what the timestamp was computed from
LocalNow(zone, offset) == [zone |-> zone, offset |-> offset]
NullTime == LocalNow(None, NoNum)

TimezonePayloads ==
    {[timezone |-> z, utc_offset_seconds |-> o] :
        z \in {None, Kolkata, BogusZone}, o \in {NoNum, Num(3600)}}

\* variant of _get_timezone_and_localtime: the caller's offset, when given,
\* is preferred to the provider's answer
_get_timezone_and_localtime_FallbackFirst(outcome, j, fallback_offset_seconds) ==
    IF fallback_offset_seconds # NoNum
    THEN [timezone |-> None,
          local_time |-> LocalNow(None, fallback_offset_seconds),
          utc_offset_seconds |-> fallback_offset_seconds]
    ELSE IF outcome = "ok" /\ Truthy(j.timezone) /\ j.timezone \in KnownZones
    THEN [timezone |-> j.timezone,
          local_time |-> LocalNow(j.timezone, NoNum),
          utc_offset_seconds |-> j.utc_offset_seconds]
    ELSE IF outcome = "ok" /\ j.utc_offset_seconds # NoNum
    THEN [timezone |-> None,
          local_time |-> LocalNow(None, j.utc_offset_seconds),
          utc_offset_seconds |-> j.utc_offset_seconds]
    ELSE [timezone |-> None, local_time |-> NullTime,
          utc_offset_seconds |-> NoNum]

\* variant of _get_timezone_and_localtime: with no tier left, UTC is assumed
_get_timezone_and_localtime_DefaultUtc(outcome, j, fallback_offset_seconds) ==
    IF outcome = "ok" /\ Truthy(j.timezone) /\ j.timezone \in KnownZones
    THEN [timezone |-> j.timezone,
          local_time |-> LocalNow(j.timezone, NoNum),
          utc_offset_seconds |-> j.utc_offset_seconds]
    ELSE IF outcome = "ok" /\ j.utc_offset_seconds # NoNum
    THEN [timezone |-> None,
          local_time |-> LocalNow(None, j.utc_offset_seconds),
          utc_offset_seconds |-> j.utc_offset_seconds]
    ELSE IF fallback_offset_seconds # NoNum
    THEN [timezone |-> None,
          local_time |-> LocalNow(None, fallback_offset_seconds),
          utc_offset_seconds |-> fallback_offset_seconds]
    ELSE [timezone |-> None, local_time |-> LocalNow(None, Num(0)),
          utc_offset_seconds |-> Num(0)]

_get_timezone_and_localtime(outcome, j, fallback_offset_seconds) ==
    IF outcome = "ok" /\ Truthy(j.timezone) /\ j.timezone \in KnownZones
    THEN [timezone |-> j.timezone,
          local_time |-> LocalNow(j.timezone, NoNum),
          utc_offset_seconds |-> j.utc_offset_seconds]
    ELSE IF outcome = "ok" /\ j.utc_offset_seconds # NoNum
    THEN [timezone |-> None,
          local_time |-> LocalNow(None, j.utc_offset_seconds),
          utc_offset_seconds |-> j.utc_offset_seconds]
    ELSE IF fallback_offset_seconds # NoNum
    THEN [timezone |-> None,
          local_time |-> LocalNow(None, fallback_offset_seconds),
          utc_offset_seconds |-> fallback_offset_seconds]
    ELSE [timezone |-> None, local_time |-> NullTime,
          utc_offset_seconds |-> NoNum]

-----------------------------------------------------------------------------
(* api_weather: inputs *)

Lats == {NoNum, Num(28), Num(91)}
Lons == {NoNum, Num(77)}
SearchNames == {None, Leh, LehIndia, OldGoa, SectorFive}

\* variant of MissingCoordinates: "and" written for "or"
MissingCoordinates_BothOnly(lat, lon) == lat = NoNum /\ lon = NoNum

\* line 242
MissingCoordinates(lat, lon) == lat = NoNum \/ lon = NoNum

\* line 248
PrimaryConfigured == OPENWEATHER_API_KEY

(* OpenWeather payloads: "weather" absent, an empty list, or a list whose   *)
(* first entry has or lacks a description.                                  *)
OWPayloads ==
    {[name |-> n, has_weather |-> w[1], weather |-> w[2],
      country |-> CountryIn, timezone |-> z] :
        n \in {None, Goa, GoaIndia},
        w \in {<<FALSE, <<>>>>, <<TRUE, <<>>>>, <<TRUE, <<None>>>>, <<TRUE, <<Haze>>>>},
        z \in {NoNum, Num(19800)}}

\* line 275, payload.get("weather", [{}])[0] raises IndexError on an empty list
PrimaryPayloadRaises(p) == p.has_weather /\ p.weather = <<>>

\* line 275
PrimaryDescription(p) == IF p.has_weather THEN p.weather[1] ELSE None

\* variant of SearchNameMoreSpecific: ">=" written for ">"
SearchNameMoreSpecific_AtLeast(search_name, weather_name) ==
    \/ Contains(Lower(search_name), <<"s", "e", "c", "t", "o", "r">>)
    \/ Contains(search_name, <<",">>)
    \/ TokenCount(search_name) >= TokenCount(weather_name)

\* line 267
SearchNameMoreSpecific(search_name, weather_name) ==
    \/ Contains(Lower(search_name), <<"s", "e", "c", "t", "o", "r">>)
    \/ Contains(search_name, <<",">>)
    \/ TokenCount(search_name) > TokenCount(weather_name)

\* lines 261-270
PrimaryFinalName(search_name, weather_name) ==
    IF Truthy(search_name) /\ Truthy(weather_name)
    THEN IF SearchNameMoreSpecific(search_name, weather_name)
         THEN search_name ELSE weather_name
    ELSE IF Truthy(search_name) THEN search_name ELSE weather_name

NoTz == [timezone |-> None, local_time |-> NullTime, utc_offset_seconds |-> NoNum]

\* lines 272-283
PrimaryOut(p, search_name) ==
    [name |-> PrimaryFinalName(search_name, p.name),
     weather |-> PrimaryDescription(p),
     country |-> p.country,
     debug_source |-> "openweather",
     has_debug_names |-> TRUE,
     debug_original_name |-> p.name,
     debug_search_name |-> search_name,
     tz |-> NoTz]

\* variant of PrimarySucceeds: the status check of line 256 left out
PrimarySucceeds_NoStatusCheck(outcome, p) ==
    outcome \in {"ok", "http_error"} /\ ~PrimaryPayloadRaises(p)

\* lines 256-257, 275: the primary call yields a record
PrimarySucceeds(outcome, p) == outcome = "ok" /\ ~PrimaryPayloadRaises(p)

WeatherResponse(out, tz) ==
    [status |-> 200, kind |-> "weather", error |-> "",
     out |-> [out EXCEPT !.tz = tz]]

-----------------------------------------------------------------------------
(* _open_meteo_fallback *)

\* Open-Meteo forecast payloads: "current" is JSON null, or an object whose
\* weather_code is absent, mapped (3), or unmapped (4)
ForecastPayloads ==
    {[current_is_null |-> TRUE, weather_code |-> NoNum]} \cup
    {[current_is_null |-> FALSE, weather_code |-> c] :
        c \in {NoNum, Num(3), Num(4)}}

EmptyAddress ==
    [suburb |-> None, neighbourhood |-> None, quarter |-> None,
     residential |-> None, city |-> None, town |-> None,
     municipality |-> None, state |-> None,
     country_code |-> None, country |-> None]

\* Nominatim /reverse payloads
NominatimReversePayloads ==
    { [name |-> None, address |-> EmptyAddress],
      [name |-> None, address |-> [EmptyAddress EXCEPT !.country_code = CountryIn]],
      [name |-> Leh, address |-> [EmptyAddress EXCEPT !.state = Ladakh,
                                                 !.country_code = CountryIn]],
      [name |-> Leh, address |-> [EmptyAddress EXCEPT !.suburb = Leh, !.city = Leh,
                                                 !.state = Ladakh]] }

\* lines 105-129
ReverseNameParts(nj) ==
    LET addr == nj.address
        local == IF Truthy(addr.suburb) THEN <<addr.suburb>>
                 ELSE IF Truthy(addr.neighbourhood) THEN <<addr.neighbourhood>>
                 ELSE IF Truthy(addr.quarter) THEN <<addr.quarter>>
                 ELSE IF Truthy(addr.residential) THEN <<addr.residential>>
                 ELSE IF Truthy(nj.name) THEN <<nj.name>>
                 ELSE <<>>
        city  == IF Truthy(addr.city) THEN <<addr.city>>
                 ELSE IF Truthy(addr.town) THEN <<addr.town>>
                 ELSE IF Truthy(addr.municipality) THEN <<addr.municipality>>
                 ELSE <<>>
        parts == local \o city
    IN  IF Len(parts) < 2 /\ Truthy(addr.state)
        THEN Append(parts, addr.state) ELSE parts

\* line 131
ReverseName(nj) ==
    IF ReverseNameParts(nj) # <<>> THEN Join(Dedup(ReverseNameParts(nj))) ELSE None

\* line 132
ReverseCountry(nj) == Or(nj.address.country_code, nj.address.country)

EmptyPlace ==
    [name |-> None, admin3 |-> None, admin2 |-> None, admin1 |-> None,
     country_code |-> None, country |-> None]

\* Open-Meteo /reverse payloads: the "results" list
OpenMeteoReversePayloads ==
    { <<>>,
      <<[EmptyPlace EXCEPT !.country_code = CountryIn]>>,
      <<[EmptyPlace EXCEPT !.name = Leh, !.admin1 = Ladakh,
                           !.country_code = CountryIn]>> }

\* lines 154-160
LeanParts(first) ==
    FilterTruthy(<<first.name, first.admin3, first.admin2, first.admin1>>)

\* line 161: dict.fromkeys(parts)[:3] subscripts a dict with a slice, which
\* raises (TypeError, KeyError from Python 3.12 on) whenever it is evaluated
LeanLabelRaises(first) == LeanParts(first) # <<>>

\* lines 138-167: the values of (name, country) after the Open-Meteo reverse
\* call; an exception anywhere in the try block leaves both as they were
AfterOpenMeteoReverse(outcome, results, name, country) ==
    IF outcome = "ok" /\ results # <<>> /\ ~LeanLabelRaises(results[1])
    THEN [name |-> None,
          country |-> Or(results[1].country_code, results[1].country)]
    ELSE [name |-> name, country |-> country]

\* lines 100-135: the values of (name, country) after the Nominatim call
AfterNominatimReverse(outcome, nj) ==
    IF outcome = "ok"
    THEN [name |-> ReverseName(nj), country |-> ReverseCountry(nj)]
    ELSE [name |-> None, country |-> None]

\* line 172: cur.get(...) raises AttributeError when "current" is null
FallbackOutRaises(cur) == cur.current_is_null

\* lines 169-178 and 298
FallbackOut(cur, name, country) ==
    [name |-> name,
     weather |-> _omap_weather_code_desc(cur.weather_code),
     country |-> country,
     debug_source |-> "open-meteo",
     has_debug_names |-> FALSE,
     debug_original_name |-> None,
     debug_search_name |-> None,
     tz |-> NoTz]

\* line 302
FallbackPrefersSearchName(search_name, original_name) ==
    \/ Contains(Lower(search_name), <<"s", "e", "c", "t", "o", "r">>)
    \/ Contains(search_name, <<",">>)
    \/ (Truthy(original_name) /\ TokenCount(search_name) > TokenCount(original_name))

\* lines 300-305
ApplySearchName(out, search_name) ==
    IF Truthy(search_name) /\ FallbackPrefersSearchName(search_name, out.name)
    THEN [out EXCEPT !.name = search_name,
                     !.has_debug_names = TRUE,
                     !.debug_original_name = out.name,
                     !.debug_search_name = search_name]
    ELSE out

\* line 312
ServiceUnavailable == ErrorResponse(502, "Weather service unavailable at the moment.")

\* variant of ForecastSucceeds: raise_for_status() of line 85 left out
ForecastSucceeds_NoStatusCheck(outcome) == outcome \in {"ok", "http_error"}

\* lines 84-86: requests.get, raise_for_status and .json() all return
ForecastSucceeds(outcome) == outcome = "ok"

-----------------------------------------------------------------------------
(* api_weather: the handler, one action per upstream call *)

\* lines 237-248
ApiWeatherEntry ==
    /\ pc = "idle"
    /\ \E lat \in Lats, lon \in Lons, sn \in SearchNames :
         /\ request' = [route |-> "weather", lat |-> lat, lon |-> lon,
                        search_name |-> sn, q |-> None, autocomplete |-> FALSE]
         /\ IF MissingCoordinates(lat, lon)
            THEN /\ response' = ErrorResponse(400, "lat and lon required")
                 /\ pc' = "done"
            ELSE /\ response' = NoResponse
                 /\ pc' = IF PrimaryConfigured THEN "w_openweather"
                          ELSE "w_fallback_forecast"
    /\ calls' = <<>>
    /\ locals' = InitLocals
    /\ UNCHANGED OPENWEATHER_API_KEY

\* lines 249-292
OpenWeatherCall ==
    /\ pc = "w_openweather"
    /\ \E o \in Outcomes, p \in OWPayloads :
         /\ calls' = Append(calls, Call("openweather", "weather", None, FALSE, o, p))
         /\ IF PrimarySucceeds(o, p)
            THEN /\ locals' = [locals EXCEPT
                                 !.out = PrimaryOut(p, request.search_name),
                                 !.tz_offset = p.timezone]
                 /\ pc' = "w_primary_timezone"
            ELSE /\ locals' = locals
                 /\ pc' = "w_fallback_forecast"
    /\ UNCHANGED <<OPENWEATHER_API_KEY, request, response>>

\* lines 286-288
PrimaryTimezoneCall ==
    /\ pc = "w_primary_timezone"
    /\ \E o \in Outcomes, j \in TimezonePayloads :
         /\ calls' = Append(calls, Call("open-meteo", "timezone", None, FALSE, o, j))
         /\ response' = WeatherResponse(locals.out,
                            _get_timezone_and_localtime(o, j, locals.tz_offset))
    /\ pc' = "done"
    /\ UNCHANGED <<OPENWEATHER_API_KEY, request, locals>>

\* lines 80-87; any exception propagates to line 311
FallbackForecastCall ==
    /\ pc = "w_fallback_forecast"
    /\ \E o \in Outcomes, wj \in ForecastPayloads :
         /\ calls' = Append(calls, Call("open-meteo", "forecast", None, FALSE, o, wj))
         /\ IF ForecastSucceeds(o)
            THEN /\ locals' = [locals EXCEPT !.cur = wj]
                 /\ response' = response
                 /\ pc' = "w_fallback_nominatim"
            ELSE /\ locals' = locals
                 /\ response' = ServiceUnavailable
                 /\ pc' = "done"
    /\ UNCHANGED <<OPENWEATHER_API_KEY, request>>

\* lines 169-181 and 298-305, run once both reverse lookups are over
FinishFallbackRecord(name, country) ==
    IF FallbackOutRaises(locals.cur)
    THEN /\ locals' = [locals EXCEPT !.name = name, !.country = country]
         /\ response' = ServiceUnavailable
         /\ pc' = "done"
    ELSE /\ locals' = [locals EXCEPT
                         !.name = name, !.country = country,
                         !.out = ApplySearchName(
                                    FallbackOut(locals.cur, name, country),
                                    request.search_name)]
         /\ response' = response
         /\ pc' = "w_fallback_timezone"

\* lines 93-138
FallbackNominatimCall ==
    /\ pc = "w_fallback_nominatim"
    /\ \E o \in Outcomes, nj \in NominatimReversePayloads :
         /\ calls' = Append(calls, Call("nominatim", "reverse", None, TRUE, o, nj))
         /\ LET r == AfterNominatimReverse(o, nj)
            IN  IF ~Truthy(r.name)
                THEN /\ locals' = [locals EXCEPT !.name = r.name, !.country = r.country]
                     /\ response' = response
                     /\ pc' = "w_fallback_reverse"
                ELSE FinishFallbackRecord(r.name, r.country)
    /\ UNCHANGED <<OPENWEATHER_API_KEY, request>>

\* lines 139-181
FallbackOpenMeteoReverseCall ==
    /\ pc = "w_fallback_reverse"
    /\ \E o \in Outcomes, results \in OpenMeteoReversePayloads :
         /\ calls' = Append(calls, Call("open-meteo", "reverse", None, FALSE, o, results))
         /\ LET r == AfterOpenMeteoReverse(o, results, locals.name, locals.country)
            IN  FinishFallbackRecord(r.name, r.country)
    /\ UNCHANGED <<OPENWEATHER_API_KEY, request>>

\* lines 308-310
FallbackTimezoneCall ==
    /\ pc = "w_fallback_timezone"
    /\ \E o \in Outcomes, j \in TimezonePayloads :
         /\ calls' = Append(calls, Call("open-meteo", "timezone", None, FALSE, o, j))
         /\ response' = WeatherResponse(locals.out,
                            _get_timezone_and_localtime(o, j, NoNum))
    /\ pc' = "done"
    /\ UNCHANGED <<OPENWEATHER_API_KEY, request, locals>>

-----------------------------------------------------------------------------
(* api_geocode: inputs and provider payloads *)

Queries == {<<>>, Blank, Kupwara, Noida, Paris, PaddedParis, LehIndia, SectorFive}

\* lines 327-331
IndianTerms ==
    { <<"s", "e", "c", "t", "o", "r">>,
      <<"b", "l", "o", "c", "k">>,
      <<"p", "h", "a", "s", "e">>,
      <<"c", "o", "l", "o", "n", "y">>,
      <<"n", "a", "g", "a", "r">>,
      <<"v", "i", "h", "a", "r">>,
      <<"d", "e", "l", "h", "i">>,
      <<"g", "u", "r", "g", "a", "o", "n">>,
      <<"g", "u", "r", "u", "g", "r", "a", "m">>,
      <<"f", "a", "r", "i", "d", "a", "b", "a", "d">>,
      <<"n", "o", "i", "d", "a">>,
      <<"g", "h", "a", "z", "i", "a", "b", "a", "d">>,
      <<"h", "a", "r", "y", "a", "n", "a">>,
      <<"p", "u", "n", "j", "a", "b">>,
      <<"u", "t", "t", "a", "r", " ", "p", "r", "a", "d", "e", "s", "h">>,
      <<"u", "p">>,
      <<"i", "n", "d", "i", "a">> }

\* line 327
is_indian_specific(q) == \E term \in IndianTerms : Contains(Lower(q), term)

\* line 320
MissingQuery(q) == ~Truthy(q)

\* variant of RetrySuffixes: the ladder repeats the query as it was given
RetrySuffixes_None == << <<>>, <<>> >>

\* variant of RetrySuffixes: the ladder has a third rung
RetrySuffixes_Three ==
    << <<",", " ", "I", "n", "d", "i", "a">>,
       <<",", " ", "K", "u", "p", "w", "a", "r", "a", ",", " ", "I", "n", "d", "i", "a">>,
       <<",", " ", "A", "s", "i", "a">> >>

\* line 494
RetrySuffixes ==
    << <<",", " ", "I", "n", "d", "i", "a">>,
       <<",", " ", "K", "u", "p", "w", "a", "r", "a", ",", " ", "I", "n", "d", "i", "a">> >>

\* line 492
RetryEligible(specific, q) ==
    /\ ~specific
    /\ Truthy(q)
    /\ ~EndsWith(Lower(q), <<"i", "n", "d", "i", "a">>)

LehDisplay == <<"L", "e", "h", ",", " ", "L", "a", "d", "a", "k", "h", ",", " ", "I", "n", "d", "i", "a", ",", " ", "A", "s", "i", "a">>

\* entries of a Nominatim /search answer
NominatimItems ==
    { [lat |-> Num(34), lon |-> Num(77), name |-> Leh, display_name |-> LehDisplay,
       address |-> [EmptyAddress EXCEPT !.city = Leh, !.state = Ladakh,
                                        !.country_code = CountryIn]],
      [lat |-> NoNum, lon |-> NoNum, name |-> None, display_name |-> LehDisplay,
       address |-> EmptyAddress] }

\* entries of an Open-Meteo /search answer
OpenMeteoItems ==
    { [name |-> Leh, admin3 |-> None, admin2 |-> Leh, admin1 |-> Ladakh,
       country_code |-> CountryIn, country |-> None,
       latitude |-> Num(34), longitude |-> Num(77)],
      [name |-> Goa, admin3 |-> None, admin2 |-> None, admin1 |-> Goa,
       country_code |-> None, country |-> None,
       latitude |-> Num(15), longitude |-> Num(74)] }

\* result lists of at most MaxResults entries
ListsOf(items) ==
    UNION {[1..n -> items] : n \in 0..MaxResults}

\* s.split(c)
RECURSIVE SplitOn(_, _)
SplitOn(s, c) ==
    IF \A i \in DOMAIN s : s[i] # c THEN <<s>>
    ELSE LET i == CHOOSE k \in DOMAIN s :
                      s[k] = c /\ \A j \in 1..(k - 1) : s[j] # c
         IN  <<SubSeq(s, 1, i - 1)>> \o SplitOn(SubSeq(s, i + 1, Len(s)), c)

\* xs[:n]
Take(xs, n) == SubSeq(xs, 1, IF n < Len(xs) THEN n ELSE Len(xs))

\* [p.strip() for p in disp.split(",")]
CommaParts(disp) ==
    LET raw == SplitOn(disp, ",") IN [i \in DOMAIN raw |-> Strip(raw[i])]

\* lines 351-366
NominatimSuggestionLabel(item, q) ==
    LET addr == item.address
        local == IF Truthy(addr.suburb) THEN <<addr.suburb>>
                 ELSE IF Truthy(addr.neighbourhood) THEN <<addr.neighbourhood>>
                 ELSE IF Truthy(item.name) THEN <<item.name>>
                 ELSE <<>>
        city  == IF Truthy(addr.city) THEN <<addr.city>>
                 ELSE IF Truthy(addr.town) THEN <<addr.town>>
                 ELSE <<>>
        state == IF Truthy(addr.state) THEN <<addr.state>> ELSE <<>>
        label == Join(Dedup(FilterTruthy(local \o city \o state)))
    IN  IF Truthy(label) THEN label ELSE Or(item.display_name, q)

\* lines 377-402
NominatimCandidateName(first, q) ==
    LET addr == first.address
        local == IF Truthy(addr.suburb) THEN <<addr.suburb>>
                 ELSE IF Truthy(addr.neighbourhood) THEN <<addr.neighbourhood>>
                 ELSE IF Truthy(addr.quarter) THEN <<addr.quarter>>
                 ELSE IF Truthy(first.name) THEN <<first.name>>
                 ELSE <<>>
        city  == IF Truthy(addr.city) THEN <<addr.city>>
                 ELSE IF Truthy(addr.town) THEN <<addr.town>>
                 ELSE <<>>
        two   == local \o city
        parts == IF Truthy(addr.state) /\ Len(two) < 3
                 THEN Append(two, addr.state) ELSE two
        disp  == Or(Or(first.display_name, first.name), q)
        name_parts ==
            IF parts # <<>> THEN parts
            ELSE IF Truthy(disp) /\ Contains(disp, <<",">>)
                 THEN Take(CommaParts(disp), 3)
                 ELSE <<>>
    IN  IF name_parts # <<>> THEN Join(Dedup(FilterTruthy(name_parts))) ELSE q

\* lines 424-433, 439-448 and 508-517
OpenMeteoLabel(first) ==
    LET n  == IF Truthy(first.name) THEN <<first.name>> ELSE <<>>
        a  == IF Truthy(first.admin3) THEN Append(n, first.admin3)
              ELSE IF Truthy(first.admin2) THEN Append(n, first.admin2)
              ELSE n
        name_parts ==
              IF Truthy(first.admin1) /\ ~\E i \in DOMAIN a : a[i] = first.admin1
              THEN Append(a, first.admin1) ELSE a
    IN  IF name_parts # <<>> THEN Join(Dedup(name_parts)) ELSE first.name

\* line 478
KeepsSectorDetail(q) ==
    \/ Contains(Lower(q), <<"s", "e", "c", "t", "o", "r">>)
    \/ Contains(Lower(q), <<"b", "l", "o", "c", "k">>)

\* lines 474-481
DisplayNameLabel(first, q) ==
    LET disp == Or(Or(first.display_name, first.name), q)
    IN  IF Truthy(disp) /\ Contains(disp, <<",">>)
        THEN Join(Take(CommaParts(disp), IF KeepsSectorDetail(q) THEN 4 ELSE 3))
        ELSE disp

\* lines 367 and 403-409: one Nominatim entry as a suggestion or candidate
NominatimEntry(item, name, source) ==
    [name |-> name, lat |-> item.lat, lon |-> item.lon,
     country |-> Or(item.address.country_code, item.address.country),
     source |-> source]

\* variant of OpenMeteoEntry: every Open-Meteo result carries the same tag
OpenMeteoEntry_OneTag(first, source) ==
    [name |-> OpenMeteoLabel(first), lat |-> first.latitude, lon |-> first.longitude,
     country |-> Or(first.country_code, first.country),
     source |-> "open-meteo"]

\* lines 434, 449-455 and 518-524
OpenMeteoEntry(first, source) ==
    [name |-> OpenMeteoLabel(first), lat |-> first.latitude, lon |-> first.longitude,
     country |-> Or(first.country_code, first.country),
     source |-> source]

CandidateResponse(entry) ==
    [status |-> 200, kind |-> "candidate", error |-> "", out |-> entry]

SuggestionsResponse(entries) ==
    [status |-> 200, kind |-> "suggestions", error |-> "", out |-> entries]

\* line 528
GeocodingFailed == ErrorResponse(502, "Geocoding failed")

\* variant of NoResults: exhaustion reported as the generic failure
NoResults_AsFailure == GeocodingFailed

\* line 526
NoResults == ErrorResponse(404, "No results")

\* lines 345 and 423: arr[:8]
MaxSuggestions == 8

\* an exception inside the try block of lines 325-526: requests.get raised,
\* or the body was not the JSON the code reads
Raises(outcome) == outcome \in {"timeout", "bad_json"}

\* "if r.ok: ... if res:" - the tier produced something to return
HasResults(outcome, results) == outcome = "ok" /\ results # <<>>

-----------------------------------------------------------------------------
(* api_geocode: the handler, one action per upstream call *)

\* variant of FirstProvider: the region test of line 332 left out
FirstProvider_AlwaysGeneral(specific) == "g_open_meteo"

\* lines 332 and 411: the provider asked first
FirstProvider(specific) == IF specific THEN "g_nominatim_region" ELSE "g_open_meteo"

\* lines 457-458: the provider asked when Open-Meteo gave nothing
AfterOpenMeteo(specific, q) ==
    IF ~specific THEN "g_nominatim_any"
    ELSE IF RetryEligible(specific, q) THEN "g_retry"
    ELSE "g_no_results"

\* lines 490-492: what follows the unrestricted Nominatim call giving nothing
AfterNominatimAny(specific, q) ==
    IF RetryEligible(specific, q) THEN "g_retry" ELSE "g_no_results"

\* lines 495-506 and 526: what follows retry number i giving nothing
AfterRetry(i) == IF i < Len(RetrySuffixes) THEN "g_retry" ELSE "g_no_results"

\* the handler moves on to position next; with nothing left to try it
\* returns line 526's error
Advance(next) ==
    IF next = "g_no_results"
    THEN response' = NoResults /\ pc' = "done"
    ELSE response' = response /\ pc' = next

\* lines 317-332
ApiGeocodeEntry ==
    /\ pc = "idle"
    /\ \E raw \in Queries, ac \in BOOLEAN :
         LET q == Strip(raw)
         IN  /\ request' = [route |-> "geocode", lat |-> NoNum, lon |-> NoNum,
                            search_name |-> None, q |-> raw, autocomplete |-> ac]
             /\ IF MissingQuery(q)
                THEN /\ response' = ErrorResponse(400, "Missing query parameter q")
                     /\ pc' = "done"
                     /\ locals' = InitLocals
                ELSE /\ response' = NoResponse
                     /\ locals' = [InitLocals EXCEPT
                                      !.q = q, !.autocomplete = ac,
                                      !.is_indian_specific = is_indian_specific(q)]
                     /\ pc' = FirstProvider(is_indian_specific(q))
    /\ calls' = <<>>
    /\ UNCHANGED OPENWEATHER_API_KEY

\* lines 333-410
NominatimRegionCall ==
    /\ pc = "g_nominatim_region"
    /\ \E o \in Outcomes, arr \in ListsOf(NominatimItems) :
         /\ calls' = Append(calls, Call("nominatim", "search", locals.q, TRUE, o, arr))
         /\ IF Raises(o)
            THEN response' = GeocodingFailed /\ pc' = "done"
            ELSE IF HasResults(o, arr)
            THEN /\ response' =
                      IF locals.autocomplete
                      THEN SuggestionsResponse(
                             [i \in DOMAIN Take(arr, MaxSuggestions) |->
                                 NominatimEntry(arr[i],
                                     NominatimSuggestionLabel(arr[i], locals.q),
                                     "nominatim")])
                      ELSE CandidateResponse(
                             NominatimEntry(arr[1],
                                 NominatimCandidateName(arr[1], locals.q),
                                 "nominatim"))
                 /\ pc' = "done"
            ELSE Advance("g_open_meteo")
    /\ UNCHANGED <<OPENWEATHER_API_KEY, request, locals>>

\* lines 411-456
OpenMeteoSearchCall ==
    /\ pc = "g_open_meteo"
    /\ \E o \in Outcomes, res \in ListsOf(OpenMeteoItems) :
         /\ calls' = Append(calls, Call("open-meteo", "search", locals.q, FALSE, o, res))
         /\ IF Raises(o)
            THEN response' = GeocodingFailed /\ pc' = "done" /\ locals' = locals
            ELSE IF HasResults(o, res)
            THEN /\ response' =
                      IF locals.autocomplete
                      THEN SuggestionsResponse(
                             [i \in DOMAIN Take(res, MaxSuggestions) |->
                                 OpenMeteoEntry(res[i], "open-meteo")])
                      ELSE CandidateResponse(OpenMeteoEntry(res[1], "open-meteo"))
                 /\ pc' = "done"
                 /\ locals' = locals
            ELSE /\ Advance(AfterOpenMeteo(locals.is_indian_specific, locals.q))
                 /\ locals' = [locals EXCEPT !.retry_i =
                        IF AfterOpenMeteo(locals.is_indian_specific, locals.q) = "g_retry"
                        THEN 1 ELSE @]
    /\ UNCHANGED <<OPENWEATHER_API_KEY, request>>

\* lines 457-489
NominatimUnrestrictedCall ==
    /\ pc = "g_nominatim_any"
    /\ \E o \in Outcomes, arr \in ListsOf(NominatimItems) :
         /\ calls' = Append(calls, Call("nominatim", "search", locals.q, FALSE, o, arr))
         /\ IF Raises(o)
            THEN response' = GeocodingFailed /\ pc' = "done" /\ locals' = locals
            ELSE IF HasResults(o, arr)
            THEN /\ response' = CandidateResponse(
                        NominatimEntry(arr[1], DisplayNameLabel(arr[1], locals.q),
                                       "nominatim"))
                 /\ pc' = "done"
                 /\ locals' = locals
            ELSE /\ Advance(AfterNominatimAny(locals.is_indian_specific, locals.q))
                 /\ locals' = [locals EXCEPT !.retry_i =
                        IF AfterNominatimAny(locals.is_indian_specific, locals.q) = "g_retry"
                        THEN 1 ELSE @]
    /\ UNCHANGED <<OPENWEATHER_API_KEY, request>>

\* lines 494-525: one iteration of the retry loop
RetryCall ==
    /\ pc = "g_retry"
    /\ \E o \in Outcomes, res \in ListsOf(OpenMeteoItems) :
         LET try_q == locals.q \o RetrySuffixes[locals.retry_i]
         IN  /\ calls' = Append(calls, Call("open-meteo", "search", try_q, FALSE, o, res))
             /\ IF Raises(o)
                THEN response' = GeocodingFailed /\ pc' = "done" /\ locals' = locals
                ELSE IF HasResults(o, res)
                THEN /\ response' = CandidateResponse(
                                        OpenMeteoEntry(res[1], "open-meteo-retry"))
                     /\ pc' = "done"
                     /\ locals' = locals
                ELSE /\ Advance(AfterRetry(locals.retry_i))
                     /\ locals' = [locals EXCEPT !.retry_i =
                            IF AfterRetry(locals.retry_i) = "g_retry" THEN @ + 1 ELSE @]
    /\ UNCHANGED <<OPENWEATHER_API_KEY, request>>

-----------------------------------------------------------------------------
(* Python number conversions *)

Digits == <<"0", "1", "2", "3", "4", "5", "6", "7", "8", "9">>

IsDigit(c) == \E i \in DOMAIN Digits : Digits[i] = c

DigitValue(c) == (CHOOSE i \in DOMAIN Digits : Digits[i] = c) - 1

RECURSIVE NatToText(_)
NatToText(n) ==
    IF n < 10 THEN <<Digits[n + 1]>>
    ELSE NatToText(n \div 10) \o <<Digits[(n % 10) + 1]>>

\* str(n) of an int
IntToText(n) == IF n < 0 THEN <<"-">> \o NatToText(0 - n) ELSE NatToText(n)

RECURSIVE DigitsValue(_)
DigitsValue(ds) ==
    IF ds = <<>> THEN 0
    ELSE 10 * DigitsValue(SubSeq(ds, 1, Len(ds) - 1)) + DigitValue(ds[Len(ds)])

\* int(text): surrounding whitespace and one sign are accepted, then only
\* decimal digits; NoNum stands for the ValueError
ParseInt(text) ==
    LET s == Strip(text)
        signed == s # <<>> /\ s[1] \in {"+", "-"}
        ds == IF signed THEN Tail(s) ELSE s
    IN  IF ds = <<>> \/ \E i \in DOMAIN ds : ~IsDigit(ds[i])
        THEN NoNum
        ELSE Num(IF signed /\ s[1] = "-" THEN 0 - DigitsValue(ds)
                 ELSE DigitsValue(ds))

-----------------------------------------------------------------------------
(* _get_weather_sound_type *)

\* the argument of _get_weather_sound_type: None, an int or a str
PyNone == [type |-> "NoneType"]
PyInt(n) == [type |-> "int", int |-> n]
PyStr(t) == [type |-> "str", str |-> t]

\* lines 762-781: the class of a numeric code, "" when no range holds it
SoundOfCode(code) ==
    IF (200 <= code /\ code <= 232) \/ (95 <= code /\ code <= 99) THEN "storm"
    ELSE IF (300 <= code /\ code <= 321) \/ (51 <= code /\ code <= 57) THEN "rain"
    ELSE IF \/ (500 <= code /\ code <= 531) \/ (61 <= code /\ code <= 67)
            \/ (80 <= code /\ code <= 82) THEN "rain"
    ELSE IF \/ (600 <= code /\ code <= 622) \/ (71 <= code /\ code <= 77)
            \/ (85 <= code /\ code <= 86) THEN "snow"
    ELSE IF (701 <= code /\ code <= 762) \/ code \in {45, 48} THEN "fog"
    ELSE IF code = 0 \/ code = 800 THEN "sunny"
    ELSE IF (801 <= code /\ code <= 804) \/ (1 <= code /\ code <= 3) THEN "cloudy"
    ELSE ""

\* variant of SoundOfText: the clear/sunny test precedes the wind test
SoundOfText_SunnyBeforeWind(w) ==
    IF Strip(w) = <<>> THEN "ambient"
    ELSE IF \/ Contains(w, <<"t", "h", "u", "n", "d", "e", "r">>)
            \/ Contains(w, <<"s", "t", "o", "r", "m">>)
            \/ Contains(w, <<"t", "o", "r", "n", "a", "d", "o">>) THEN "storm"
    ELSE IF Contains(w, <<"h", "a", "i", "l">>) THEN "storm"
    ELSE IF \/ Contains(w, <<"r", "a", "i", "n">>)
            \/ Contains(w, <<"d", "r", "i", "z", "z", "l", "e">>)
            \/ Contains(w, <<"s", "h", "o", "w", "e", "r">>)
            \/ Contains(w, <<"p", "r", "e", "c", "i", "p", "i", "t", "a", "t", "i", "o", "n">>) THEN "rain"
    ELSE IF \/ Contains(w, <<"s", "n", "o", "w">>)
            \/ Contains(w, <<"s", "l", "e", "e", "t">>)
            \/ Contains(w, <<"b", "l", "i", "z", "z", "a", "r", "d">>) THEN "snow"
    ELSE IF \/ Contains(w, <<"f", "o", "g">>)
            \/ Contains(w, <<"m", "i", "s", "t">>)
            \/ Contains(w, <<"h", "a", "z", "e">>)
            \/ Contains(w, <<"s", "m", "o", "k", "e">>)
            \/ Contains(w, <<"d", "u", "s", "t">>) THEN "fog"
    ELSE IF \/ Contains(w, <<"c", "l", "e", "a", "r">>)
            \/ Contains(w, <<"s", "u", "n", "n", "y">>) THEN "sunny"
    ELSE IF \/ Contains(w, <<"w", "i", "n", "d">>)
            \/ Contains(w, <<"b", "r", "e", "e", "z", "y">>)
            \/ Contains(w, <<"g", "u", "s", "t">>) THEN "wind"
    ELSE IF \/ Contains(w, <<"c", "l", "o", "u", "d">>)
            \/ Contains(w, <<"o", "v", "e", "r", "c", "a", "s", "t">>)
            \/ Contains(w, <<"b", "r", "o", "k", "e", "n">>)
            \/ Contains(w, <<"s", "c", "a", "t", "t", "e", "r", "e", "d">>) THEN "cloudy"
    ELSE "ambient"

\* lines 787-808: the class of the lower-cased text w
SoundOfText(w) ==
    IF Strip(w) = <<>> THEN "ambient"
    ELSE IF \/ Contains(w, <<"t", "h", "u", "n", "d", "e", "r">>)
            \/ Contains(w, <<"s", "t", "o", "r", "m">>)
            \/ Contains(w, <<"t", "o", "r", "n", "a", "d", "o">>) THEN "storm"
    ELSE IF Contains(w, <<"h", "a", "i", "l">>) THEN "storm"
    ELSE IF \/ Contains(w, <<"r", "a", "i", "n">>)
            \/ Contains(w, <<"d", "r", "i", "z", "z", "l", "e">>)
            \/ Contains(w, <<"s", "h", "o", "w", "e", "r">>)
            \/ Contains(w, <<"p", "r", "e", "c", "i", "p", "i", "t", "a", "t", "i", "o", "n">>) THEN "rain"
    ELSE IF \/ Contains(w, <<"s", "n", "o", "w">>)
            \/ Contains(w, <<"s", "l", "e", "e", "t">>)
            \/ Contains(w, <<"b", "l", "i", "z", "z", "a", "r", "d">>) THEN "snow"
    ELSE IF \/ Contains(w, <<"f", "o", "g">>)
            \/ Contains(w, <<"m", "i", "s", "t">>)
            \/ Contains(w, <<"h", "a", "z", "e">>)
            \/ Contains(w, <<"s", "m", "o", "k", "e">>)
            \/ Contains(w, <<"d", "u", "s", "t">>) THEN "fog"
    ELSE IF \/ Contains(w, <<"w", "i", "n", "d">>)
            \/ Contains(w, <<"b", "r", "e", "e", "z", "y">>)
            \/ Contains(w, <<"g", "u", "s", "t">>) THEN "wind"
    ELSE IF \/ Contains(w, <<"c", "l", "e", "a", "r">>)
            \/ Contains(w, <<"s", "u", "n", "n", "y">>) THEN "sunny"
    ELSE IF \/ Contains(w, <<"c", "l", "o", "u", "d">>)
            \/ Contains(w, <<"o", "v", "e", "r", "c", "a", "s", "t">>)
            \/ Contains(w, <<"b", "r", "o", "k", "e", "n">>)
            \/ Contains(w, <<"s", "c", "a", "t", "t", "e", "r", "e", "d">>) THEN "cloudy"
    ELSE "ambient"

\* variant of _get_weather_sound_type: an int is classified by its text only
_get_weather_sound_type_TextOnly(weather) ==
    IF weather.type = "NoneType" THEN "ambient"
    ELSE SoundOfText(Lower(IF weather.type = "int" THEN IntToText(weather.int)
                           ELSE weather.str))

\* lines 732-808 for None, int and str arguments (the dict shapes of lines
\* 740-753 are not among the arguments drawn)
_get_weather_sound_type(weather) ==
    IF weather.type = "NoneType" THEN "ambient"
    ELSE LET code == IF weather.type = "int" THEN Num(weather.int)
                     ELSE ParseInt(weather.str)
             by_code == IF code = NoNum THEN "" ELSE SoundOfCode(code[1])
             w == Lower(IF weather.type = "int" THEN IntToText(weather.int)
                        ELSE weather.str)
         IN  IF by_code # "" THEN by_code ELSE SoundOfText(w)

-----------------------------------------------------------------------------
(* api_ambient *)

LightRain == <<"L", "i", "g", "h", "t", " ", "R", "a", "i", "n">>
ClearSky == <<"C", "l", "e", "a", "r", " ", "S", "k", "y">>
Code95 == <<"9", "5">>
Overcast == <<"O", "v", "e", "r", "c", "a", "s", "t">>
Thunderstorm == <<"T", "h", "u", "n", "d", "e", "r", "s", "t", "o", "r", "m">>
VolcanicAsh == <<"v", "o", "l", "c", "a", "n", "i", "c", " ", "a", "s", "h">>
Snow == <<"s", "n", "o", "w">>
Gusty == <<"g", "u", "s", "t", "y">>

\* the "weather" member of the request body: absent/null, or a string
AmbientWeathers ==
    {None, <<>>, LightRain, ClearSky, Code95, Overcast, Thunderstorm,
     VolcanicAsh, Snow, Haze, Gusty}

\* a JSON value float() rejects
Unparsable == <<"not", "a number">>

\* the "precip_mm" and "intensity" members: absent/null, unparsable, or a number
PrecipValues == {NoNum, Unparsable, Num(0), Num(3), Num(11)}
IntensityValues == {NoNum, Unparsable, Num(2), Num(3), Num(10), Num(11)}

\* lines 623-630: precip_mm is preferred to intensity; a value float()
\* rejects leaves no intensity at all
RequestIntensity(precip_mm, intensity) ==
    IF precip_mm # NoNum
    THEN IF precip_mm = Unparsable THEN NoNum ELSE precip_mm
    ELSE IF intensity # NoNum
    THEN IF intensity = Unparsable THEN NoNum ELSE intensity
    ELSE NoNum

\* variant of AdjustSoundType: the adjustment is applied again to its result
AdjustSoundType_Repeated(sound_type, intensity) ==
    IF intensity = NoNum THEN sound_type
    ELSE IF intensity[1] > 10 /\ sound_type \in {"rain", "ambient"} THEN "storm"
    ELSE IF intensity[1] > 2 /\ sound_type = "ambient" THEN "rain"
    ELSE sound_type

\* lines 650-657
AdjustSoundType(sound_type, intensity) ==
    IF intensity = NoNum THEN sound_type
    ELSE IF intensity[1] > 10 /\ sound_type = "rain" THEN "storm"
    ELSE IF intensity[1] > 2 /\ sound_type = "ambient" THEN "rain"
    ELSE sound_type

\* what the host does with the playback request: the loop is started, no audio
\* file exists, only an MP3 exists and no MP3 player is installed, the player
\* exits within half a second, or a call raises
PlaybackOutcomes ==
    {"playing", "no_file", "no_mp3_player", "process_died", "exception"}

AmbientResponse(status, kind, message, sound_type, weather_condition) ==
    [status |-> status, kind |-> kind, error |-> message,
     out |-> [sound_type |-> sound_type, weather |-> weather_condition]]

\* lines 612-729: the handler makes no upstream call
ApiAmbient ==
    /\ pc = "idle"
    /\ \E weather \in AmbientWeathers, action \in {"play", "stop"},
          precip_mm \in PrecipValues, intensity \in IntensityValues,
          outcome \in PlaybackOutcomes :
         LET weather_condition == Lower(Or(weather, <<>>))
             sound_type ==
                 AdjustSoundType(
                     _get_weather_sound_type(PyStr(weather_condition)),
                     RequestIntensity(precip_mm, intensity))
         IN  /\ request' = [route |-> "ambient", weather |-> weather,
                            action |-> action, precip_mm |-> precip_mm,
                            intensity |-> intensity]
             /\ response' =
                  IF action = "stop"
                  THEN IF outcome = "exception"
                       THEN ErrorResponse(500, "exception")
                       ELSE [status |-> 200, kind |-> "stopped", error |-> "",
                             out |-> NoOut]
                  ELSE IF outcome = "no_file"
                  THEN AmbientResponse(404, "error", "No audio file found",
                                       sound_type, weather_condition)
                  ELSE IF outcome = "no_mp3_player"
                  THEN ErrorResponse(415, "MP3 playback not available on platform")
                  ELSE IF outcome = "process_died"
                  THEN ErrorResponse(500, "Audio process failed")
                  ELSE IF outcome = "exception"
                  THEN ErrorResponse(500, "exception")
                  ELSE AmbientResponse(200, "playing", "",
                                       sound_type, weather_condition)
    /\ pc' = "done"
    /\ UNCHANGED <<OPENWEATHER_API_KEY, locals, calls>>

-----------------------------------------------------------------------------
(* The server *)

NoRequest ==
    [route |-> "none", lat |-> NoNum, lon |-> NoNum, search_name |-> None,
     q |-> None, autocomplete |-> FALSE]

\* line 14: the credential is read once, at start-up
Init ==
    /\ OPENWEATHER_API_KEY \in BOOLEAN
    /\ pc = "idle"
    /\ request = NoRequest
    /\ locals = InitLocals
    /\ calls = <<>>
    /\ response = NoResponse

\* the response has been sent; every entity of the request is discarded
Finish ==
    /\ pc = "done"
    /\ pc' = "idle"
    /\ request' = NoRequest
    /\ locals' = InitLocals
    /\ calls' = <<>>
    /\ response' = NoResponse
    /\ UNCHANGED OPENWEATHER_API_KEY

Next ==
    \/ ApiWeatherEntry
    \/ OpenWeatherCall
    \/ PrimaryTimezoneCall
    \/ FallbackForecastCall
    \/ FallbackNominatimCall
    \/ FallbackOpenMeteoReverseCall
    \/ FallbackTimezoneCall
    \/ ApiGeocodeEntry
    \/ NominatimRegionCall
    \/ OpenMeteoSearchCall
    \/ NominatimUnrestrictedCall
    \/ RetryCall
    \/ ApiAmbient
    \/ Finish

Spec == Init /\ [][Next]_vars

-----------------------------------------------------------------------------
(* The classifier and the label builders applied to drawn arguments *)

MaxCode == 810

\* integer codes drawn: both coding schemes, their gaps, and codes outside them
CodesDrawn == (0..MaxCode) \cup {-1, -95, 1000}

\* the keyword groups of the textual path, in priority order
KeywordGroups ==
    <<
       [class |-> "storm",
        keywords |-> {<<"s", "t", "o", "r", "m">>,
                     <<"t", "h", "u", "n", "d", "e", "r">>,
                     <<"t", "o", "r", "n", "a", "d", "o">>,
                     <<"h", "a", "i", "l">>}],
       [class |-> "rain",
        keywords |-> {<<"r", "a", "i", "n">>,
                     <<"d", "r", "i", "z", "z", "l", "e">>,
                     <<"s", "h", "o", "w", "e", "r">>,
                     <<"p", "r", "e", "c", "i", "p", "i", "t", "a", "t", "i", "o", "n">>}],
       [class |-> "snow",
        keywords |-> {<<"s", "n", "o", "w">>,
                     <<"s", "l", "e", "e", "t">>,
                     <<"b", "l", "i", "z", "z", "a", "r", "d">>}],
       [class |-> "fog",
        keywords |-> {<<"f", "o", "g">>,
                     <<"m", "i", "s", "t">>,
                     <<"h", "a", "z", "e">>,
                     <<"s", "m", "o", "k", "e">>,
                     <<"d", "u", "s", "t">>}],
       [class |-> "wind",
        keywords |-> {<<"w", "i", "n", "d">>,
                     <<"b", "r", "e", "e", "z", "y">>,
                     <<"g", "u", "s", "t">>}],
       [class |-> "sunny",
        keywords |-> {<<"c", "l", "e", "a", "r">>,
                     <<"s", "u", "n", "n", "y">>}],
       [class |-> "cloudy",
        keywords |-> {<<"c", "l", "o", "u", "d">>,
                     <<"o", "v", "e", "r", "c", "a", "s", "t">>,
                     <<"b", "r", "o", "k", "e", "n">>,
                     <<"s", "c", "a", "t", "t", "e", "r", "e", "d">>}]
    >>

KeywordsDrawn == UNION {KeywordGroups[g].keywords : g \in DOMAIN KeywordGroups}

\* texts drawn: the descriptions of the code table, every keyword alone, every
\* ordered pair of keywords, and mixed-case, numeric and blank samples
TextsDrawn ==
    {e[2] : e \in OmapMapping}
    \cup KeywordsDrawn
    \cup {a \o <<" ">> \o b : a \in KeywordsDrawn, b \in KeywordsDrawn}
    \cup
    {<<"T", "h", "u", "n", "d", "e", "r", "s", "t", "o", "r", "m", " ", "w", "i", "t", "h", " ", "r", "a", "i", "n">>,
     <<"H", "E", "A", "V", "Y", " ", "R", "A", "I", "N">>,
     <<"w", "i", "n", "d", "y", " ", "a", "n", "d", " ", "c", "l", "e", "a", "r">>,
     <<"H", "a", "i", "l", "s", "t", "o", "n", "e", "s">>,
     <<"P", "a", "r", "t", "l", "y", " ", "C", "l", "o", "u", "d", "y">>,
     <<"v", "o", "l", "c", "a", "n", "i", "c", " ", "a", "s", "h">>,
     <<"9", "5">>,
     <<" ", "8", "0", "0", " ">>,
     <<"-", "5">>,
     <<"+", "3">>,
     <<"9", "5", ".", "0">>,
     <<"9", "9", "9", "9">>,
     <<" ", " ", " ">>,
     <<>>}

ArgumentsDrawn ==
    {PyNone} \cup {PyInt(n) : n \in CodesDrawn} \cup {PyStr(t) : t \in TextsDrawn}

LehLehLadakh == <<"L", "e", "h", ",", " ", "L", "e", "h", ",", " ", "L", "a", "d", "a", "k", "h">>

\* geocoder results drawn: each structured component present or absent
PlacesDrawn ==
    {[lat |-> Num(34), lon |-> Num(77), name |-> n, display_name |-> d,
      address |-> [EmptyAddress EXCEPT
                      !.suburb = su, !.neighbourhood = ne, !.quarter = qu,
                      !.residential = re, !.city = ci, !.town = to,
                      !.municipality = mu, !.state = st]] :
        n \in {None, Leh}, d \in {None, LehDisplay, LehLehLadakh},
        su \in {None, Leh}, ne \in {None, Goa}, qu \in {None, OldGoa},
        re \in {None, Noida}, ci \in {None, Leh, Paris}, to \in {None, Kupwara},
        mu \in {None, Goa}, st \in {None, Ladakh}}

FunctionInit ==
    /\ OPENWEATHER_API_KEY = FALSE
    /\ pc = "apply"
    /\ request \in {[route |-> "classify", weather |-> w] : w \in ArgumentsDrawn}
                   \cup {[route |-> "labels", place |-> p, q |-> Leh] : p \in PlacesDrawn}
    /\ locals = InitLocals
    /\ calls = <<>>
    /\ response = NoResponse

\* _get_weather_sound_type applied to the drawn argument
Classify ==
    /\ pc = "apply" /\ request.route = "classify"
    /\ response' = [status |-> 0, kind |-> "sound_type", error |-> "",
                    out |-> _get_weather_sound_type(request.weather)]
    /\ pc' = "done"
    /\ UNCHANGED <<OPENWEATHER_API_KEY, request, locals, calls>>

\* the label builders of the reverse path, of the two region-biased forward
\* paths and of the unrestricted forward path, applied to the drawn result
ComposeLabels ==
    /\ pc = "apply" /\ request.route = "labels"
    /\ response' = [status |-> 0, kind |-> "labels", error |-> "",
                    out |-> [reverse |-> ReverseName(request.place),
                             single |-> NominatimCandidateName(request.place, request.q),
                             suggestion |-> NominatimSuggestionLabel(request.place, request.q),
                             display |-> DisplayNameLabel(request.place, request.q)]]
    /\ pc' = "done"
    /\ UNCHANGED <<OPENWEATHER_API_KEY, request, locals, calls>>

FunctionNext ==
    \/ Classify
    \/ ComposeLabels

FunctionSpec == FunctionInit /\ [][FunctionNext]_vars

-----------------------------------------------------------------------------
(* The server with its handlers running to completion *)

\* one step of a request being served: an upstream call and what follows it
HandlerStep ==
    \/ OpenWeatherCall
    \/ PrimaryTimezoneCall
    \/ FallbackForecastCall
    \/ FallbackNominatimCall
    \/ FallbackOpenMeteoReverseCall
    \/ FallbackTimezoneCall
    \/ NominatimRegionCall
    \/ OpenMeteoSearchCall
    \/ NominatimUnrestrictedCall
    \/ RetryCall

\* every upstream call has a timeout (lines 84, 99, 146, 197, 255, 338, 416,
\* 463, 500), so a handler that can take its next step takes it
LiveSpec == Init /\ [][Next]_vars /\ WF_vars(HandlerStep)



-----------------------------------------------------------------------------
(* Properties *)

CallsTo(provider, endpoint) ==
    {i \in DOMAIN calls :
        calls[i].provider = provider /\ calls[i].endpoint = endpoint}

\* the call answered 200 with an empty result list
OkEmpty(c) == c.outcome = "ok" /\ c.payload = <<>>

\* the call answered 200 with a non-empty result list
OkNonEmpty(c) == c.outcome = "ok" /\ c.payload # <<>>

WeatherRequest == request.route = "weather"
GeocodeRequest == request.route = "geocode"
ValidCoordinates == request.lat # NoNum /\ request.lon # NoNum

SecondaryCalled == CallsTo("open-meteo", "forecast") # {}

\* the primary call timed out, raised, answered a non-success status or a
\* body that cannot be read as a weather payload
PrimaryFailedInLog ==
    \E i \in CallsTo("openweather", "weather") :
        \/ calls[i].outcome # "ok"
        \/ (calls[i].payload.has_weather /\ calls[i].payload.weather = <<>>)

\* the secondary forecast call failed in the same sense
SecondaryFailedInLog ==
    \E i \in CallsTo("open-meteo", "forecast") :
        \/ calls[i].outcome # "ok"
        \/ calls[i].payload.current_is_null

PrimaryUnavailable == ~OPENWEATHER_API_KEY \/ PrimaryFailedInLog

\* C1: a weather request with valid coordinates ends either with a record
\* whose weather description is not null or with the service-unavailable
\* error, never with a success record whose description is null.
C1_DescriptionOrUnavailable ==
    (pc = "done" /\ WeatherRequest /\ ValidCoordinates) =>
        IF response.kind = "weather"
        THEN response.out.weather # None
        ELSE response.status = 502

\* C2: on the secondary path, with the Nominatim reverse call unavailable and
\* the Open-Meteo reverse call answering a result that has a country code,
\* the request ends with a record whose country is not null.
C2_CountryFromGeneralReverse ==
    (/\ pc = "done" /\ WeatherRequest
     /\ ~SecondaryFailedInLog
     /\ \E i \in CallsTo("nominatim", "reverse") : calls[i].outcome # "ok"
     /\ \E j \in CallsTo("open-meteo", "reverse") :
            /\ OkNonEmpty(calls[j])
            /\ Truthy(calls[j].payload[1].country_code))
    => (response.kind = "weather" /\ Truthy(response.out.country))

\* C3: for the query "Kupwara", the no-results error is returned only after a
\* request for "Kupwara, India" has been issued.
C3_KupwaraRetriedWithIndia ==
    (/\ pc = "done" /\ GeocodeRequest
     /\ Strip(request.q) = Kupwara
     /\ response.status = 404)
    => \E i \in DOMAIN calls : calls[i].q = Kupwara \o <<",", " ", "I", "n", "d", "i", "a">>

\* C4: in forward geocoding a transient failure of a provider call (raised
\* exception, non-success status, unreadable body) counts as that tier
\* failing and the next tier is attempted: when the first provider call
\* fails the other provider has been asked before any error is returned.
C4_TransientFailureAdvances ==
    (/\ pc = "done" /\ GeocodeRequest
     /\ calls # <<>>
     /\ calls[1].outcome # "ok")
    => Len(calls) >= 2

\* C5: in a weather request the secondary provider is contacted only if the
\* primary has no credential or its call failed, and once the request is
\* answered with valid coordinates it has been contacted whenever the primary
\* had no credential or failed; so a successful primary call is never
\* followed by a secondary call, and no error is returned before the
\* secondary has been tried.
C5_SecondaryIffPrimaryUnavailable ==
    WeatherRequest =>
        /\ SecondaryCalled => PrimaryUnavailable
        /\ (pc = "done" /\ ValidCoordinates /\ PrimaryUnavailable) => SecondaryCalled
        /\ (response.kind = "error" /\ response.status = 502) => SecondaryCalled

\* witness of C5: the primary call failed and the secondary was contacted
C5_Witness ==
    /\ pc = "done" /\ WeatherRequest
    /\ OPENWEATHER_API_KEY /\ PrimaryFailedInLog /\ SecondaryCalled
    /\ response.kind = "weather"

\* C6: a weather request with valid coordinates returns the
\* service-unavailable error exactly when the primary is unconfigured or
\* failed and the secondary forecast fetch failed; failures of the reverse
\* geocoding calls or of the timezone lookup alone never produce an error.
C6_UnavailableIffBothFail ==
    (pc = "done" /\ WeatherRequest /\ ValidCoordinates) =>
        /\ response.kind \in {"weather", "error"}
        /\ (response.kind = "error") <=> (PrimaryUnavailable /\ SecondaryFailedInLog)
        /\ (response.kind = "error") =>
              /\ response.status = 502
              /\ response.error = "Weather service unavailable at the moment."

\* witness of C6: both reverse lookups and the timezone lookup failed and the
\* weather record is returned all the same
C6_Witness ==
    /\ pc = "done" /\ WeatherRequest
    /\ response.kind = "weather"
    /\ CallsTo("nominatim", "reverse") # {}
    /\ CallsTo("open-meteo", "reverse") # {}
    /\ CallsTo("open-meteo", "timezone") # {}
    /\ \A i \in DOMAIN calls :
          calls[i].endpoint \in {"reverse", "timezone"} => calls[i].outcome = "timeout"

\* C7: a weather request missing lat or lon, and a geocode request whose
\* query is empty after trimming, are answered with the input-validation
\* error and no upstream call is ever issued for them.
C7_ValidationBeforeAnyCall ==
    /\ (WeatherRequest /\ ~ValidCoordinates) =>
          /\ calls = <<>>
          /\ pc = "done"
          /\ response.status = 400 /\ response.error = "lat and lon required"
    /\ (GeocodeRequest /\ Strip(request.q) = <<>>) =>
          /\ calls = <<>>
          /\ pc = "done"
          /\ response.status = 400 /\ response.error = "Missing query parameter q"

\* witness of C7: a weather request with lon but no lat has been refused
C7_Witness ==
    /\ pc = "done" /\ WeatherRequest
    /\ request.lat = NoNum /\ request.lon # NoNum
    /\ response.status = 400

\* C8: the first forward-geocode call goes to Nominatim restricted to the
\* region when the query is region-specific and to Open-Meteo otherwise; when
\* that call returns an empty list, the next call goes to the other provider,
\* unrestricted, with the same query, and no response is returned before it.
C8_FirstProviderThenOther ==
    (GeocodeRequest /\ calls # <<>>) =>
        LET q == Strip(request.q)
            first == calls[1]
            other == IF is_indian_specific(q) THEN "open-meteo" ELSE "nominatim"
        IN  /\ first.endpoint = "search" /\ first.q = q
            /\ is_indian_specific(q) =>
                  (first.provider = "nominatim" /\ first.countrycodes)
            /\ ~is_indian_specific(q) =>
                  (first.provider = "open-meteo" /\ ~first.countrycodes)
            /\ OkEmpty(first) =>
                  IF Len(calls) = 1
                  THEN pc # "done" /\ response.kind = "none"
                  ELSE /\ calls[2].provider = other
                       /\ calls[2].endpoint = "search"
                       /\ calls[2].q = q
                       /\ ~calls[2].countrycodes

\* witness of C8: a region-specific query got nothing from Nominatim and
\* Open-Meteo was asked next
C8_Witness ==
    /\ GeocodeRequest /\ Len(calls) >= 2
    /\ is_indian_specific(Strip(request.q))
    /\ OkEmpty(calls[1])
    /\ calls[2].provider = "open-meteo"

\* C9: for every query that does not end in the region suffix and for which
\* both providers returned empty lists, the request is answered only after a
\* retry with ", India" and, if that returned nothing, one with
\* ", Kupwara, India".
C9_SuffixLadderForEveryQuery ==
    (/\ pc = "done" /\ GeocodeRequest
     /\ Len(calls) >= 2
     /\ ~EndsWith(Lower(Strip(request.q)), <<"i", "n", "d", "i", "a">>)
     /\ OkEmpty(calls[1]) /\ OkEmpty(calls[2]))
    => /\ Len(calls) >= 3
       /\ calls[3].q = Strip(request.q) \o <<",", " ", "I", "n", "d", "i", "a">>
       /\ OkEmpty(calls[3]) =>
             /\ Len(calls) = 4
             /\ calls[4].q = Strip(request.q) \o
                   <<",", " ", "K", "u", "p", "w", "a", "r", "a", ",", " ", "I", "n", "d", "i", "a">>
       /\ OkNonEmpty(calls[3]) => Len(calls) = 3

\* C10: when every forward-geocode attempt completed with an empty list the
\* response is the no-results error (404 "No results"), and that error is
\* never returned when some attempt returned a non-empty list.
C10_NoResultsIsDistinct ==
    (pc = "done" /\ GeocodeRequest /\ calls # <<>>) =>
        /\ (\A i \in DOMAIN calls : OkEmpty(calls[i])) =>
              (response.status = 404 /\ response.error = "No results")
        /\ (response.status = 404 \/ response.error = "No results") =>
              \A i \in DOMAIN calls : ~OkNonEmpty(calls[i])

\* witness of C10: four attempts, all empty, answered with no-results
C10_Witness ==
    /\ pc = "done" /\ GeocodeRequest
    /\ Len(calls) = 4
    /\ \A i \in DOMAIN calls : OkEmpty(calls[i])
    /\ response.status = 404

\* C11: once some forward-geocode tier has returned a non-empty list, a
\* request with the autocomplete flag is answered with a list of at most 8
\* suggestions and a request without it with the single first candidate.
C11_AutocompleteGivesSuggestions ==
    (/\ pc = "done" /\ GeocodeRequest
     /\ \E i \in DOMAIN calls : OkNonEmpty(calls[i]))
    => IF request.autocomplete
       THEN response.kind = "suggestions" /\ Len(response.out) <= 8
       ELSE response.kind = "candidate"

\* the name the provider gave for the place: OpenWeather's "name" on the
\* primary path, the reverse-geocoded label on the secondary path
CanonicalName ==
    IF response.out.debug_source = "openweather"
    THEN calls[CHOOSE i \in CallsTo("openweather", "weather") : TRUE].payload.name
    ELSE locals.name

\* the rule of the claim: keyword "sector" (any case), a comma, or more
\* whitespace-separated tokens than the canonical name
QueryNameWins(query_name, canonical_name) ==
    \/ Contains(Lower(query_name), <<"s", "e", "c", "t", "o", "r">>)
    \/ Contains(query_name, <<",">>)
    \/ TokenCount(query_name) > TokenCount(canonical_name)

WeatherRecordReturned ==
    pc = "done" /\ WeatherRequest /\ response.kind = "weather"

\* C12: when a weather record is returned and both the query name and the
\* canonical name exist, the displayed name is the query name if it contains
\* "sector" (case-insensitive) or a comma or has more tokens than the
\* canonical name, and the canonical name otherwise, on both paths.
C12_DisplayedNameRule ==
    (/\ WeatherRecordReturned
     /\ Truthy(request.search_name) /\ Truthy(CanonicalName))
    => response.out.name =
          IF QueryNameWins(request.search_name, CanonicalName)
          THEN request.search_name ELSE CanonicalName

\* witness of C12: on the secondary path the canonical name is displayed
\* although a different query name was given
C12_Witness ==
    /\ WeatherRecordReturned
    /\ response.out.debug_source = "open-meteo"
    /\ Truthy(request.search_name) /\ Truthy(CanonicalName)
    /\ request.search_name # CanonicalName
    /\ response.out.name = CanonicalName

\* C13: when a weather record is returned and exactly one of the query name
\* and the canonical name exists, the displayed name is that one, on both
\* paths.
C13_OnlyNameIsDisplayed ==
    (/\ WeatherRecordReturned
     /\ Truthy(request.search_name) # Truthy(CanonicalName))
    => response.out.name =
          IF Truthy(request.search_name) THEN request.search_name ELSE CanonicalName

\* the timezone lookup of a returned weather record: its last upstream call
TimezoneCall == calls[Len(calls)]

\* what the timezone provider supplied (nothing when the call failed)
ProviderZone ==
    IF TimezoneCall.outcome = "ok" THEN TimezoneCall.payload.timezone ELSE None
ProviderOffset ==
    IF TimezoneCall.outcome = "ok"
    THEN TimezoneCall.payload.utc_offset_seconds ELSE NoNum

\* a zone name the zone database resolves
ProviderZoneUsable == Truthy(ProviderZone) /\ ProviderZone \in KnownZones

\* the fallback offset the caller passes: OpenWeather's "timezone" field on
\* the primary path, none on the secondary path
CallerFallbackOffset ==
    IF response.out.debug_source = "openweather"
    THEN calls[CHOOSE i \in CallsTo("openweather", "weather") : TRUE].payload.timezone
    ELSE NoNum

\* C14: the timezone fields of a returned record come from the first tier
\* that applies: a usable provider zone name (zone name, a local time, the
\* provider's offset); else the provider's offset (no zone name, a local time
\* at that offset); else the caller's fallback offset (no zone name, a local
\* time at that offset).  The fallback offset is used only when the provider
\* supplied neither.
C14_TimezoneTiers ==
    WeatherRecordReturned =>
        LET tz == response.out.tz
        IN  IF ProviderZoneUsable
            THEN /\ tz.timezone = ProviderZone
                 /\ tz.local_time # NullTime
                 /\ tz.local_time.zone = ProviderZone
                 /\ tz.utc_offset_seconds = ProviderOffset
            ELSE IF ProviderOffset # NoNum
            THEN /\ tz.timezone = None
                 /\ tz.local_time = LocalNow(None, ProviderOffset)
                 /\ tz.utc_offset_seconds = ProviderOffset
            ELSE IF CallerFallbackOffset # NoNum
            THEN /\ tz.timezone = None
                 /\ tz.local_time = LocalNow(None, CallerFallbackOffset)
                 /\ tz.utc_offset_seconds = CallerFallbackOffset
            ELSE TRUE

\* witness of C14: the timezone provider failed, the caller supplied 19800
\* and the record carries utc_offset_seconds = 19800
C14_Witness ==
    /\ WeatherRecordReturned
    /\ TimezoneCall.endpoint = "timezone" /\ TimezoneCall.outcome # "ok"
    /\ CallerFallbackOffset = Num(19800)
    /\ response.out.tz.utc_offset_seconds = Num(19800)
    /\ response.out.tz.local_time = LocalNow(None, Num(19800))

\* C15: the three timezone fields of a returned record are all null exactly
\* when every tier failed (no usable zone name and no offset from the
\* provider, no fallback offset from the caller); the weather record is
\* returned with status 200 all the same.
C15_AllNullIffAllTiersFailed ==
    WeatherRecordReturned =>
        LET tz == response.out.tz
        IN  /\ response.status = 200
            /\ (/\ tz.timezone = None
                /\ tz.utc_offset_seconds = NoNum
                /\ tz.local_time = NullTime)
               <=> (/\ ~ProviderZoneUsable
                    /\ ProviderOffset = NoNum
                    /\ CallerFallbackOffset = NoNum)

\* witness of C15: a weather record returned with all three fields null
C15_Witness ==
    /\ WeatherRecordReturned
    /\ response.out.weather # None
    /\ response.out.tz.timezone = None
    /\ response.out.tz.utc_offset_seconds = NoNum
    /\ response.out.tz.local_time = NullTime

Classified == pc = "done" /\ request.route = "classify"

\* the range table of the numeric path: <<first code, last code, class>>
RangeTable ==
    { <<200, 232, "storm">>, <<95, 99, "storm">>,
      <<300, 321, "rain">>, <<51, 57, "rain">>, <<500, 531, "rain">>,
      <<61, 67, "rain">>, <<80, 82, "rain">>,
      <<600, 622, "snow">>, <<71, 77, "snow">>, <<85, 86, "snow">>,
      <<701, 762, "fog">>, <<45, 45, "fog">>, <<48, 48, "fog">>,
      <<0, 0, "sunny">>, <<800, 800, "sunny">>,
      <<801, 804, "cloudy">>, <<1, 3, "cloudy">> }

RangesOf(code) == {r \in RangeTable : r[1] <= code /\ code <= r[2]}

\* C16: an integer code gets the class of the range that holds it, and
\* "ambient" when no range holds it; 95 is storm, 3 is cloudy, 800 is sunny.
C16_NumericRangeTable ==
    (Classified /\ request.weather.type = "int")
    => LET code == request.weather.int
       IN  /\ \A r \in RangesOf(code) : response.out = r[3]
           /\ RangesOf(code) = {} => response.out = "ambient"
           /\ code = 95 => response.out = "storm"
           /\ code = 3 => response.out = "cloudy"
           /\ code = 800 => response.out = "sunny"

\* witness of C16: a code between the ranges (4) was classified as "ambient"
C16_Witness ==
    /\ Classified /\ request.weather.type = "int"
    /\ request.weather.int = 4
    /\ response.out = "ambient"

\* the groups, in priority order, with a keyword occurring in the text w
MatchingGroups(w) ==
    {g \in DOMAIN KeywordGroups :
        \E k \in KeywordGroups[g].keywords : Contains(w, k)}

FirstMatchClass(w) ==
    IF MatchingGroups(w) = {} THEN "ambient"
    ELSE KeywordGroups[CHOOSE g \in MatchingGroups(w) :
                          \A h \in MatchingGroups(w) : g <= h].class

\* C17: a text that is not a number gets the class of the first keyword
\* group, in priority order, one of whose keywords occurs in the lower-cased
\* text, and "ambient" when no keyword occurs.
C17_FirstKeywordGroupWins ==
    (/\ Classified /\ request.weather.type = "str"
     /\ ParseInt(request.weather.str) = NoNum)
    => response.out = FirstMatchClass(Lower(request.weather.str))

\* witness of C17: a text with keywords of two groups got the earlier class
C17_Witness ==
    /\ Classified /\ request.weather.type = "str"
    /\ Cardinality(MatchingGroups(Lower(request.weather.str))) = 2
    /\ 5 \in MatchingGroups(Lower(request.weather.str))
    /\ 6 \in MatchingGroups(Lower(request.weather.str))
    /\ response.out = "wind"

AmbientPlaying ==
    pc = "done" /\ request.route = "ambient" /\ response.kind = "playing"

\* the class of the request's weather text before any adjustment
ClassifiedSound ==
    _get_weather_sound_type(PyStr(Lower(Or(request.weather, <<>>))))

\* TRUE when the request carries an intensity value greater than n
IntensityAbove(n) ==
    LET i == RequestIntensity(request.precip_mm, request.intensity)
    IN  i # NoNum /\ i[1] > n

\* C18: the intensity changes the class in two cases only: rain becomes storm
\* above 10 and ambient becomes rain above 2; every other class is kept, and
\* ambient above 10 becomes rain, not storm.
C18_IntensityUpgrades ==
    AmbientPlaying =>
        /\ ClassifiedSound = "rain" =>
              response.out.sound_type = IF IntensityAbove(10) THEN "storm" ELSE "rain"
        /\ ClassifiedSound = "ambient" =>
              response.out.sound_type = IF IntensityAbove(2) THEN "rain" ELSE "ambient"
        /\ ClassifiedSound \notin {"rain", "ambient"} =>
              response.out.sound_type = ClassifiedSound

\* witness of C18: an ambient class with an intensity above 10 is played as rain
C18_Witness ==
    /\ AmbientPlaying
    /\ ClassifiedSound = "ambient"
    /\ IntensityAbove(10)
    /\ response.out.sound_type = "rain"

LabelsComposed == pc = "done" /\ request.route = "labels"

\* a structured component is present in the drawn geocoder result
HasStructuredComponents ==
    LET a == request.place.address
    IN  \/ Truthy(request.place.name)
        \/ \E v \in {a.suburb, a.neighbourhood, a.quarter, a.residential,
                     a.city, a.town, a.municipality, a.state} : Truthy(v)

\* the first present value of a list of optional values, as a list of 0 or 1
FirstPresent(values) ==
    IF FilterTruthy(values) = <<>> THEN <<>> ELSE <<Head(FilterTruthy(values))>>

\* the label of the shared heuristic for the drawn geocoder result
SharedHeuristicLabel ==
    LET a == request.place.address
        two == FirstPresent(<<a.suburb, a.neighbourhood, a.quarter,
                              a.residential, request.place.name>>)
               \o FirstPresent(<<a.city, a.town, a.municipality>>)
        parts == IF Len(two) < 2 /\ Truthy(a.state) THEN Append(two, a.state)
                 ELSE two
    IN  Join(Dedup(parts))

\* C19: for a result with structured components, the forward single-candidate
\* path, the forward autocomplete path and the reverse path give the same
\* label, the one of the shared heuristic.
C19_SameLabelOnEveryPath ==
    (LabelsComposed /\ HasStructuredComponents)
    => /\ response.out.reverse = SharedHeuristicLabel
       /\ response.out.single = SharedHeuristicLabel
       /\ response.out.suggestion = SharedHeuristicLabel

\* TRUE when the label has no part twice and composing it again changes nothing
WellComposed(label) ==
    LET parts == CommaParts(label)
    IN  /\ \A i, j \in DOMAIN parts : parts[i] = parts[j] => i = j
        /\ Join(Dedup(parts)) = label

\* C20: every label emitted, from structured components or from the raw
\* display string, has no part twice, keeps first-occurrence order, and is a
\* fixed point of label composition.
C20_LabelsHaveNoDuplicates ==
    LabelsComposed =>
        \A label \in {response.out.reverse, response.out.single,
                      response.out.suggestion, response.out.display} :
            Truthy(label) => WellComposed(label)

\* the forward-geocode result a Nominatim answer was built from
NominatimAnswered ==
    /\ pc = "done" /\ GeocodeRequest /\ response.status = 200
    /\ calls[Len(calls)].provider = "nominatim"

\* TRUE when the geocoder result carries no structured component
Unstructured(item) ==
    /\ ~Truthy(item.name)
    /\ \A v \in {item.address.suburb, item.address.neighbourhood,
                 item.address.quarter, item.address.residential,
                 item.address.city, item.address.town,
                 item.address.municipality, item.address.state} : ~Truthy(v)

\* the first 4 comma segments of the display string for a query with a
\* locality-unit keyword, the first 3 otherwise
SegmentsKept(item, q) ==
    Join(Take(CommaParts(item.display_name),
              IF \/ Contains(Lower(q), <<"s", "e", "c", "t", "o", "r">>)
                 \/ Contains(Lower(q), <<"b", "l", "o", "c", "k">>)
              THEN 4 ELSE 3))

\* C21: a label taken from the raw display string of a result without
\* structured components keeps the first 4 segments when the query holds
\* "sector" or "block" and the first 3 otherwise, on every path.
C21_DisplaySegmentsKept ==
    NominatimAnswered =>
        LET items == calls[Len(calls)].payload
            q == locals.q
        IN  /\ (response.kind = "candidate" /\ Unstructured(items[1]))
                  => response.out.name = SegmentsKept(items[1], q)
            /\ response.kind = "suggestions"
                  => \A i \in DOMAIN response.out :
                        Unstructured(items[i])
                           => response.out[i].name = SegmentsKept(items[i], q)

\* the general-purpose provider's reverse lookup was made and named a place
GeneralReverseNamedPlace ==
    \E i \in CallsTo("open-meteo", "reverse") :
        /\ calls[i].outcome = "ok"
        /\ calls[i].payload # <<>>
        /\ Truthy(calls[i].payload[1].name)

\* the leaner label: name and administrative levels, de-duplicated, at most 3
LeanerLabel(first) ==
    Join(Take(Dedup(FilterTruthy(
        <<first.name, first.admin3, first.admin2, first.admin1>>)), 3))

\* C22: when the region-biased reverse lookup gave no name and the
\* general-purpose one returned a named result, the record's place name (no
\* query name being given) is that result's leaner label, never null.
C22_GeneralReverseNamesRecord ==
    (/\ WeatherRecordReturned
     /\ ~Truthy(request.search_name)
     /\ GeneralReverseNamedPlace)
    => LET i == CHOOSE k \in CallsTo("open-meteo", "reverse") : TRUE
       IN  /\ response.out.name # None
           /\ response.out.name = LeanerLabel(calls[i].payload[1])

\* what makes two upstream calls identical: endpoint and query parameters
CallKey(c) ==
    <<c.provider, c.endpoint, c.q, c.lat, c.lon, c.countrycodes>>

\* C23: within one resolution no upstream call is issued twice with the same
\* provider endpoint and the same query parameters; the queries of the suffix
\* ladder differ from each other and from the original query.
C23_NoIdenticalCallTwice ==
    \A i, j \in DOMAIN calls :
        CallKey(calls[i]) = CallKey(calls[j]) => i = j

\* witness of C23: a forward geocode that went through both rungs of the
\* suffix ladder after both providers answered with nothing
C23_Witness ==
    /\ pc = "done" /\ GeocodeRequest
    /\ Len(calls) = 4
    /\ calls[1].provider = "open-meteo" /\ calls[3].provider = "open-meteo"
    /\ calls[4].provider = "open-meteo"
    /\ calls[3].q # calls[1].q /\ calls[4].q # calls[3].q

\* the provenance tag that names the provider and attempt whose response
\* supplied a forward-geocode output: the last call of the resolution
GeocodeTagExpected ==
    LET c == calls[Len(calls)]
    IN  IF c.provider = "nominatim" THEN "nominatim"
        ELSE IF c.q = locals.q THEN "open-meteo"
        ELSE "open-meteo-retry"

\* C24: every successful output carries a provenance tag, and the tag names
\* the provider whose response supplied the data: "openweather" exactly when
\* the primary payload was used, "open-meteo" when the secondary forecast
\* was, and for geocoding the provider (and attempt) that returned the result.
C24_ProvenanceNamesTheSupplier ==
    /\ WeatherRecordReturned =>
          /\ response.out.debug_source \in {"openweather", "open-meteo"}
          /\ response.out.debug_source = "openweather"
                <=> /\ \E i \in CallsTo("openweather", "weather") :
                           calls[i].outcome = "ok"
                    /\ CallsTo("open-meteo", "forecast") = {}
          /\ response.out.debug_source = "open-meteo"
                <=> \E i \in CallsTo("open-meteo", "forecast") :
                       calls[i].outcome = "ok"
    /\ (pc = "done" /\ GeocodeRequest /\ response.kind = "candidate")
          => response.out.source = GeocodeTagExpected
    /\ (pc = "done" /\ GeocodeRequest /\ response.kind = "suggestions")
          => \A i \in DOMAIN response.out :
                response.out[i].source = GeocodeTagExpected

\* witness of C24: a candidate found by the suffix ladder, tagged as such
C24_Witness ==
    /\ pc = "done" /\ GeocodeRequest /\ response.kind = "candidate"
    /\ Len(calls) >= 3
    /\ response.out.source = "open-meteo-retry"

\* C25: when a query name and a canonical name were both available, the
\* weather record carries both of them (the provider's original name and the
\* search name), on either path and whichever was selected.
C25_BothNamesRecorded ==
    (/\ WeatherRecordReturned
     /\ Truthy(request.search_name) /\ Truthy(CanonicalName))
    => /\ response.out.has_debug_names
       /\ response.out.debug_original_name = CanonicalName
       /\ response.out.debug_search_name = request.search_name

\* the timezone fields computed from the timezone provider's response alone
TimezoneFromProviderAlone ==
    IF ProviderZoneUsable
    THEN [timezone |-> ProviderZone,
          local_time |-> LocalNow(ProviderZone, NoNum),
          utc_offset_seconds |-> ProviderOffset]
    ELSE IF ProviderOffset # NoNum
    THEN [timezone |-> None,
          local_time |-> LocalNow(None, ProviderOffset),
          utc_offset_seconds |-> ProviderOffset]
    ELSE [timezone |-> None, local_time |-> NullTime,
          utc_offset_seconds |-> NoNum]

\* C26 as stated: the timezone part of the record does not depend on the
\* weather resolver's outcome.  The secondary path gives the timezone
\* resolver nothing from the weather provider, so for the same coordinates
\* and the same timezone-provider response independence requires every
\* record to carry the fields computed from that response alone.
C26_TimezoneIndependentOfWeather ==
    WeatherRecordReturned => response.out.tz = TimezoneFromProviderAlone

\* C26 amended: the timezone part is independent of the weather resolver's
\* outcome whenever the timezone provider supplied a usable zone name or an
\* offset; when it supplied neither, the timezone part is the fixed-offset
\* time at the primary weather provider's offset if the primary provider
\* answered with one, and all null otherwise.
C26_TimezoneDependsOnlyThroughFallback ==
    WeatherRecordReturned =>
        IF ProviderZoneUsable \/ ProviderOffset # NoNum
        THEN response.out.tz = TimezoneFromProviderAlone
        ELSE IF CallerFallbackOffset # NoNum
        THEN /\ response.out.debug_source = "openweather"
             /\ response.out.tz =
                   [timezone |-> None,
                    local_time |-> LocalNow(None, CallerFallbackOffset),
                    utc_offset_seconds |-> CallerFallbackOffset]
        ELSE response.out.tz = TimezoneFromProviderAlone

\* witness of C26: the primary provider answered with an offset, the timezone
\* provider with a usable zone name, and the record carries the latter only
C26_Witness ==
    /\ WeatherRecordReturned
    /\ response.out.debug_source = "openweather"
    /\ CallerFallbackOffset = Num(19800)
    /\ ProviderZoneUsable
    /\ response.out.tz.timezone = ProviderZone
    /\ response.out.tz.utc_offset_seconds # CallerFallbackOffset

\* C27: every coordinate pair a weather request passes to an upstream
\* provider lies within -90..90 and -180..180; a request with coordinates out
\* of range reaches no provider.
C27_CoordinatesInRange ==
    WeatherRequest =>
        \A i \in DOMAIN calls :
            /\ calls[i].lat # NoNum /\ calls[i].lon # NoNum
            /\ -90 <= calls[i].lat[1] /\ calls[i].lat[1] <= 90
            /\ -180 <= calls[i].lon[1] /\ calls[i].lon[1] <= 180

\* C28: for every code of the secondary provider's code table, the class of
\* the numeric code and the class of its description text are the same.
C28_CodeAndDescriptionAgree ==
    (/\ Classified /\ request.weather.type = "int"
     /\ \E e \in OmapMapping : e[1] = request.weather.int)
    => response.out =
          _get_weather_sound_type(
              PyStr(_omap_weather_code_desc(Num(request.weather.int))))

\* the most upstream calls a resolution may issue
CallBudget == IF GeocodeRequest THEN 4 ELSE 5

Serving == pc \notin {"idle", "done"}

Responded == pc = "done" /\ response.kind # "none"

\* C29: a forward-geocode request issues at most 4 upstream calls and a
\* weather request at most 5, and every request being served ends with a
\* response, whatever the providers answer.
C29_BoundedCallsThenResponse ==
    /\ [](Len(calls) <= CallBudget)
    /\ Serving ~> Responded

\* witness of C29: a weather request answered after all five calls (primary
\* weather, secondary weather, both reverse lookups, timezone)
C29_Witness ==
    /\ Responded /\ WeatherRequest
    /\ Len(calls) = 5
    /\ response.kind = "weather"

====
